---- MODULE Spec2Model ----
(***************************************************************************)
(* realtime512: cross-recording unit matching and the focus-unit spike     *)
(* train assembler.                                                        *)
(*                                                                         *)
(*   serve/focus_units_handlers.py  get_spike_train_for_focus_unit_handler *)
(*   helpers/unit_matching.py       nearest_neighbors, compute_unit_matches*)
(*                                                                         *)
(* Recording files are named 1..NumFiles; the numeric order of the names   *)
(* stands for the lexicographic (chronological) order of the filenames.    *)
(* Times are exact rationals in the code's floats; here every time is an   *)
(* integer number of ticks, TicksPerSecond ticks to the second, and every  *)
(* sampling frequency of ConfigChoices divides TicksPerSecond.             *)
(***************************************************************************)
EXTENDS Integers, Sequences, FiniteSets, TLC

----------------------------------------------------------------------------
(* Bounds of the model *)

NumFiles == 2
MaxUnit == 2
MaxRecords == 2
MaxSpikes == 1

MaxEvents == 2
MaxNeighbors == 2
MaxStored == 2      \* focus units in the store
MaxIdNum == 4       \* largest number of a focus unit id
MaxBatch == 2       \* units of one add request

(* Value domains *)

Files == 1..NumFiles
UnitIds == 1..MaxUnit
SpikeLabels == 0..MaxUnit
FileSizes == {4, 10}
ConfigChoices ==
    { [n_channels |-> 1, sampling_frequency |-> 2],
      [n_channels |-> 2, sampling_frequency |-> 1] }
TicksPerSecond == 2

\* compute_unit_matches: cluster labels (0 = noise) and one-dimensional
\* feature vectors
Labels == {0, 1, 2}
Coords == {0, 1}
TieBreaks == {"low", "high"}

\* Python's None (a segment's unit_id, an absent dict key)
Null == -1

NoUnit == [bin_filename |-> 0, unit_id |-> Null]
FocusUnits == [bin_filename : Files, unit_id : UnitIds]
NoResponse == [status |-> 0]
SpikeLabelArrays == UNION { [1..n -> SpikeLabels] : n \in 0..MaxSpikes }

VARIABLES
    pc,                  \* position of the request in the handler
    focus_unit,          \* the focus unit found in the store, or NoUnit
    config,              \* realtime512.yaml: n_channels, sampling_frequency
    bin_files,           \* sorted .bin filenames of raw/
    nscanned,            \* match records read so far
    mutual_matches_map,  \* filename -> matched unit id (Null: no entry)
    dir_seen,            \* during the scan: per file, the (unit, side of the
                         \* focus unit) of the records read so far that pair
                         \* a unit of the file with the focus unit
    linked,              \* history: per file, the units some scanned record
                         \* pairs with the focus unit
    idx,                 \* index into bin_files of the next file to walk
    segments,
    current_offset,
    total_spikes,
    walked,              \* history: the files walked, with what was on disk
    response,
    frames_x, labels_x,  \* recording X: feature vector and label per event
    frames_y, labels_y,  \* recording Y
    n_neighbors,
    tie_break,           \* how the neighbor index orders equidistant points
    result_xy,           \* compute_unit_matches(X, Y)
    result_yx,           \* compute_unit_matches(Y, X)
    store_file,          \* focus_units.json: the list under "focus_units"
    w_pc,                \* per write request in flight: where its handler is
    w_data,              \* per writer: data["focus_units"] as it loaded it
    w_added,             \* per writer: added_units when its handler returned
    w_response,          \* per writer: the status of its last response
    w_stale              \* history: per writer, whether another writer saved
                         \* the file after this writer's last load

asmVars == << pc, focus_unit, config, bin_files, nscanned, mutual_matches_map,
              dir_seen, linked, idx, segments, current_offset, total_spikes, walked,
              response >>

matchVars == << frames_x, labels_x, frames_y, labels_y, n_neighbors,
                tie_break, result_xy, result_yx >>

storeVars == << store_file, w_pc, w_data, w_added, w_response, w_stale >>

vars == << asmVars, matchVars, storeVars >>

----------------------------------------------------------------------------
(* Sequence helpers *)

RECURSIVE SumSeq(_)
SumSeq(s) == IF s = << >> THEN 0 ELSE Head(s) + SumSeq(Tail(s))

Range(s) == { s[i] : i \in 1..Len(s) }

\* the orders in which os.listdir may return the names of a directory
Listings(S) ==
    { f \in [1..Cardinality(S) -> S] :
        \A i, j \in 1..Cardinality(S) : i # j => f[i] # f[j] }

----------------------------------------------------------------------------
(* unit_matching.py: nearest_neighbors and compute_unit_matches *)

\* a float score count / n, kept as the exact fraction
Frac(num, den) == [num |-> num, den |-> den]
FracEq(a, b) == a.num * b.den = b.num * a.den
FracLeq(a, b) == a.num * b.den <= b.num * a.den
Zero == Frac(0, 1)
One == Frac(1, 1)

NotCalled == [status |-> "none"]
Raised == [status |-> "raised"]

\* an array, evaluated once (as a function it is the one it is given)
Array(f) == f @@ << >>

MaxOf(S) == CHOOSE x \in S : \A y \in S : y <= x
MinOf(S) == CHOOSE x \in S : \A y \in S : x <= y

\* Euclidean distance of two one-dimensional feature vectors
Distance(a, b) == IF a >= b THEN a - b ELSE b - a

\* NearestNeighbors(n_neighbors).fit(data1).kneighbors(data2) raises
\* ValueError on an empty array and when n_neighbors > len(data1)
KNeighborsRaises(data1, data2, k) ==
    \/ Len(data1) = 0
    \/ Len(data2) = 0
    \/ k > Len(data1)

\* nearest_neighbors: for each point of data2 the indices of its k nearest
\* points of data1 (the order within a row is not used by the caller)
nearest_neighbors(data1, data2, k, tie) ==
    [ i \in 1..Len(data2) |->
        LET d(j) == Distance(data1[j], data2[i])
            Before(j2, j) ==
                \/ d(j2) < d(j)
                \/ /\ d(j2) = d(j)
                   /\ IF tie = "low" THEN j2 < j ELSE j2 > j
        IN  { j \in 1..Len(data1) :
                Cardinality({ j2 \in 1..Len(data1) : Before(j2, j) }) < k } ]

\* neighbor_labels = labels[neighbors]; unique, counts = np.unique(...);
\* unique[np.argmax(counts)]: the smallest of the most frequent labels
MajorityLabel(neighbors, labels) ==
    LET count(l) == Cardinality({ j \in neighbors : labels[j] = l })
        unique == { labels[j] : j \in neighbors }
        top == MaxOf({ count(l) : l \in unique })
    IN  MinOf({ l \in unique : count(l) = top })

\* the per-event best label of every query event
EventMatches(nearest, labels) ==
    [ i \in 1..Len(nearest) |-> MajorityLabel(nearest[i], labels) ]

\* inds = np.where(labels == k)[0]
Inds(labels, k) == { i \in 1..Len(labels) : labels[i] = k }

Count(s, v) == Cardinality({ i \in 1..Len(s) : s[i] = v })

\* cluster_matches: the event matches of the events of unit k, in order
RECURSIVE ClusterMatches(_, _, _)
ClusterMatches(event_matches, labels, k) ==
    IF labels = << >> THEN << >>
    ELSE LET rest == ClusterMatches(Tail(event_matches), Tail(labels), k)
         IN  IF Head(labels) = k THEN << Head(event_matches) >> \o rest
             ELSE rest

\* max(cluster_matches, key=cluster_matches.count): the first element whose
\* count is the largest
FirstMostFrequent(s) ==
    LET top == MaxOf({ Count(s, s[i]) : i \in 1..Len(s) })
    IN  s[MinOf({ i \in 1..Len(s) : Count(s, s[i]) = top })]

\* the mutant: the count is divided by the events of the whole recording
MatchScoreOverAll(best_label_count, num_inds, num_events) ==
    Frac(best_label_count, num_events)

\* the mutant: the ratio is taken upside down
MatchScoreInverted(best_label_count, num_inds, num_events) ==
    Frac(num_inds, best_label_count)

\* match_score = best_label_count / len(inds)
MatchScore(best_label_count, num_inds, num_events) ==
    Frac(best_label_count, num_inds)

\* max_label = int(np.max(labels)), of a non-empty array
MaxLabelOf(labels) == MaxOf({ labels[i] : i \in 1..Len(labels) })

\* the loop "for k in range(1, max_label + 1)" over the units of the query
\* recording: per label 0..max_label the entries of the best_matches and
\* match_scores arrays, zero where the loop writes nothing (label 0, and a
\* label without events, which it skips)
ClusterConsensus(event_matches, labels) ==
    Array([ k \in 0..MaxLabelOf(labels) |->
        IF k = 0 \/ Inds(labels, k) = {}
        THEN [best_label |-> 0, match_score |-> Zero]
        ELSE LET cluster_matches == ClusterMatches(event_matches, labels, k)
                 best_label == FirstMostFrequent(cluster_matches)
             IN  [ best_label  |-> best_label,
                   match_score |->
                       MatchScore(Count(cluster_matches, best_label),
                                  Len(cluster_matches), Len(labels)) ] ])

BestMatches(consensus) ==
    Array([ k \in DOMAIN consensus |-> consensus[k].best_label ])

MatchScores(consensus) ==
    Array([ k \in DOMAIN consensus |-> consensus[k].match_score ])

\* overall_score = (score_x_to_y + score_y_to_x) / 2.0
OverallScore(a, b) == Frac(a.num * b.den + b.num * a.den, 2 * a.den * b.den)

\* the mutant: the last unit of X is left out of the loop
MutualLoopRangeShort(max_label_x) == 1..(max_label_x - 1)

\* for kx in range(1, max_label_x + 1)
MutualLoopRange(max_label_x) == 1..max_label_x

\* the mutant: the best match of ky is not compared with kx
IsMutualOneWay(kx, ky, best_matches_y_to_x) == ky > 0

\* if ky > 0 and best_matches_y_to_x[ky] == kx
IsMutual(kx, ky, best_matches_y_to_x) ==
    ky > 0 /\ best_matches_y_to_x[ky] = kx

\* the loop "Find mutual matches", from kx on
RECURSIVE MutualMatches(_, _, _, _, _, _)
MutualMatches(kx, max_label_x, bm_x_to_y, bm_y_to_x, sc_x_to_y, sc_y_to_x) ==
    IF kx \notin MutualLoopRange(max_label_x) THEN << >>
    ELSE LET ky == bm_x_to_y[kx]
             rest == MutualMatches(kx + 1, max_label_x, bm_x_to_y, bm_y_to_x,
                                   sc_x_to_y, sc_y_to_x)
         IN  IF IsMutual(kx, ky, bm_y_to_x)
             THEN << [ unit_x        |-> kx,
                       unit_y        |-> ky,
                       score_x_to_y  |-> sc_x_to_y[kx],
                       score_y_to_x  |-> sc_y_to_x[ky],
                       overall_score |-> OverallScore(sc_x_to_y[kx],
                                                      sc_y_to_x[ky]) ] >>
                  \o rest
             ELSE rest

\* compute_unit_matches(fx, lx, fy, ly, n_neighbors); the best-match and
\* score arrays are its local variables, kept with the result
compute_unit_matches(fx, lx, fy, ly, k, tie) ==
    IF KNeighborsRaises(fx, fy, k) \/ KNeighborsRaises(fy, fx, k)
    THEN Raised
    ELSE LET nearest_y_to_x == Array(nearest_neighbors(fx, fy, k, tie))
             nearest_x_to_y == Array(nearest_neighbors(fy, fx, k, tie))
             event_matches_y_to_x == Array(EventMatches(nearest_y_to_x, lx))
             event_matches_x_to_y == Array(EventMatches(nearest_x_to_y, ly))
             consensus_y_to_x == ClusterConsensus(event_matches_y_to_x, ly)
             consensus_x_to_y == ClusterConsensus(event_matches_x_to_y, lx)
             best_matches_y_to_x == BestMatches(consensus_y_to_x)
             match_scores_y_to_x == MatchScores(consensus_y_to_x)
             best_matches_x_to_y == BestMatches(consensus_x_to_y)
             match_scores_x_to_y == MatchScores(consensus_x_to_y)
         IN  [ status               |-> "ok",
               mutual_matches       |->
                   MutualMatches(1, MaxLabelOf(lx), best_matches_x_to_y,
                                 best_matches_y_to_x, match_scores_x_to_y,
                                 match_scores_y_to_x),
               best_matches_x_to_y  |-> best_matches_x_to_y,
               best_matches_y_to_x  |-> best_matches_y_to_x,
               event_matches_x_to_y |-> event_matches_x_to_y,
               event_matches_y_to_x |-> event_matches_y_to_x ]

\* the recordings a call may be given: one feature vector and one label per
\* event
Recordings ==
    UNION { [frames : [1..n -> Coords], labels : [1..n -> Labels]] :
              n \in 0..MaxEvents }

MatchIdle ==
    /\ frames_x = << >>
    /\ labels_x = << >>
    /\ frames_y = << >>
    /\ labels_y = << >>
    /\ n_neighbors = 0
    /\ tie_break = "low"
    /\ result_xy = NotCalled
    /\ result_yx = NotCalled

----------------------------------------------------------------------------
(* focus_units_handlers.py: the focus-unit store, pure parts *)

\* the requests that write the store are served by two threads at most
Writers == {1, 2}

\* notes that the request body does not have
Missing == "<missing>"

NoteTexts == {"a"}
StoreUnitIds == {1}
StoreFile == 1

\* f"F{next_num:03d}": the decimal digits, padded with zeros to three
RECURSIVE Digits(_)
Digits(n) == IF n < 10 THEN << n >> ELSE Digits(n \div 10) \o << n % 10 >>

RECURSIVE ZeroPad(_, _)
ZeroPad(d, width) == IF Len(d) >= width THEN d ELSE ZeroPad(<< 0 >> \o d, width)

FormatId(next_num) == [prefix |-> "F", digits |-> ZeroPad(Digits(next_num), 3)]

\* int(focus_id[1:])
RECURSIVE ParseInt(_)
ParseInt(d) ==
    IF d = << >> THEN 0
    ELSE 10 * ParseInt(SubSeq(d, 1, Len(d) - 1)) + d[Len(d)]

\* the loop of _get_next_focus_unit_id over the existing units
RECURSIVE MaxNum(_)
MaxNum(existing_units) ==
    IF existing_units = << >> THEN 0
    ELSE LET focus_id == Head(existing_units).focus_unit_id
             rest == MaxNum(Tail(existing_units))
         IN  IF focus_id.prefix = "F" /\ ParseInt(focus_id.digits) > rest
             THEN ParseInt(focus_id.digits)
             ELSE rest

\* the mutant: the number of units, not the largest number, is counted up
NextNumByCount(existing_units) == Len(existing_units) + 1

\* next_num = max_num + 1
NextNum(existing_units) == MaxNum(existing_units) + 1

_get_next_focus_unit_id(existing_units) ==
    IF existing_units = << >> THEN FormatId(1)
    ELSE FormatId(NextNum(existing_units))

NoReply == 0

\* the outcome of a handler after its load: the status of its response, the
\* list it saves (save is FALSE where the handler returns before
\* _save_focus_units) and its added_units
Outcome(status, save, focus_units, added_units) ==
    [ response    |-> status,
      save        |-> save,
      focus_units |-> focus_units,
      added_units |-> added_units ]

\* the mutant: an add that fails saves the units validated before the one
\* that failed
FailedAddSaves(existing_units, added_units) ==
    Outcome(400, TRUE, existing_units, added_units)

\* return jsonify({"error": ...}), 400 out of the loop of the add handler
FailedAdd(existing_units, added_units) ==
    Outcome(400, FALSE, existing_units, added_units)

\* the loop "for unit_data in units_to_add" of add_focus_units_handler and
\* what follows it; sorting[i] says what is on disk for the i-th unit's
\* file: "ok", "missing" (no spike_labels.npy) or "vanished" (gone between
\* the test and the hash)
RECURSIVE AddLoop(_, _, _, _, _)
AddLoop(existing_units, added_units, units_to_add, sorting, i) ==
    IF i > Len(units_to_add)
    THEN Outcome(201, TRUE, existing_units, added_units)
    ELSE LET unit_data == units_to_add[i]
         IN  IF unit_data.bin_filename = Null \/ unit_data.unit_id = Null
             THEN FailedAdd(existing_units, added_units)
             ELSE IF sorting[i] = "missing"
             THEN FailedAdd(existing_units, added_units)
             ELSE IF sorting[i] = "vanished"
             THEN Outcome(500, FALSE, existing_units, added_units)
             ELSE LET new_unit ==
                          [ focus_unit_id |->
                                _get_next_focus_unit_id(existing_units),
                            bin_filename  |-> unit_data.bin_filename,
                            unit_id       |-> unit_data.unit_id,
                            notes         |-> "" ]
                  IN  AddLoop(Append(existing_units, new_unit),
                              Append(added_units, new_unit),
                              units_to_add, sorting, i + 1)

HasUnit(focus_units, focus_unit_id) ==
    \E i \in 1..Len(focus_units) :
       focus_units[i].focus_unit_id = focus_unit_id

\* the loop of update_focus_unit_handler: the first unit with the id gets
\* the notes
SetNotes(focus_units, focus_unit_id, notes) ==
    LET first == MinOf({ i \in 1..Len(focus_units) :
                           focus_units[i].focus_unit_id = focus_unit_id })
    IN  [focus_units EXCEPT ![first].notes = notes]

UpdateOutcome(focus_units, focus_unit_id, notes) ==
    IF ~HasUnit(focus_units, focus_unit_id)
    THEN Outcome(404, FALSE, focus_units, << >>)
    ELSE Outcome(200, TRUE, SetNotes(focus_units, focus_unit_id, notes),
                 << >>)

\* [unit for unit in data["focus_units"] if unit["focus_unit_id"] != id]
RECURSIVE FilterOut(_, _)
FilterOut(focus_units, focus_unit_id) ==
    IF focus_units = << >> THEN << >>
    ELSE LET rest == FilterOut(Tail(focus_units), focus_unit_id)
         IN  IF Head(focus_units).focus_unit_id # focus_unit_id
             THEN << Head(focus_units) >> \o rest
             ELSE rest

DeleteOutcome(focus_units, focus_unit_id) ==
    LET remaining == FilterOut(focus_units, focus_unit_id)
    IN  IF Len(remaining) = Len(focus_units)
        THEN Outcome(404, FALSE, focus_units, << >>)
        ELSE Outcome(200, TRUE, remaining, << >>)

\* what a handler does with the list it loaded
HandlerOutcome(req, focus_units, sorting) ==
    IF req.kind = "add"
    THEN AddLoop(focus_units, << >>, req.units, sorting, 1)
    ELSE IF req.kind = "update"
    THEN UpdateOutcome(focus_units, req.focus_unit_id, req.notes)
    ELSE DeleteOutcome(focus_units, req.focus_unit_id)

\* the mutant: the handler works on the file as it is when it saves
ReloadedData(loaded, on_disk) == on_disk

\* data = _load_focus_units(): the handler works on the list it loaded
LoadedData(loaded, on_disk) == loaded

\* the bodies of the requests
UnitData ==
    { [bin_filename |-> StoreFile, unit_id |-> u] : u \in StoreUnitIds }
      \cup { [bin_filename |-> Null, unit_id |-> 1],
              [bin_filename |-> StoreFile, unit_id |-> Null] }

FocusUnitIds == { FormatId(n) : n \in 1..MaxIdNum }

AddRequests ==
    { [kind |-> "add", has_units |-> TRUE, units |-> units] :
        units \in UNION { [1..n -> UnitData] : n \in 0..MaxBatch } }
      \cup { [kind |-> "add", has_units |-> FALSE, units |-> << >>] }

UpdateRequests ==
    { [kind |-> "update", focus_unit_id |-> id, notes |-> notes] :
        id \in FocusUnitIds, notes \in NoteTexts \cup { Missing } }

DeleteRequests ==
    { [kind |-> "delete", focus_unit_id |-> id] : id \in FocusUnitIds }

\* the 400 replies given before the store is loaded
RejectedEarly(req) ==
    \/ req.kind = "add" /\ (~req.has_units \/ Len(req.units) = 0)
    \/ req.kind = "update" /\ req.notes = Missing

\* the units of an add request whose file the loop can get to look at:
\* those before the first unit that lacks a field
LookedAt(units) ==
    { k \in 1..Len(units) :
        \A i \in 1..k :
           units[i].bin_filename # Null /\ units[i].unit_id # Null }

\* what the add handler may find on disk for the files of its units: the
\* loop returns at the first file that fails, so what there is for the
\* files after it is not looked at
SortingChoices(req) ==
    IF req.kind = "add"
    THEN { [i \in 1..Len(req.units) |-> "ok"] }
           \cup { [i \in 1..Len(req.units) |-> IF i = k THEN found ELSE "ok"] :
                    k \in LookedAt(req.units),
                    found \in {"missing", "vanished"} }
    ELSE { << >> }

StoreIdle ==
    /\ store_file = << >>
    /\ w_pc = [w \in Writers |-> "idle"]
    /\ w_data = [w \in Writers |-> << >>]
    /\ w_added = [w \in Writers |-> << >>]
    /\ w_response = [w \in Writers |-> NoReply]
    /\ w_stale = [w \in Writers |-> FALSE]

----------------------------------------------------------------------------
(* get_spike_train_for_focus_unit_handler: pure parts *)

RECURSIVE SortedNames(_)
SortedNames(S) ==
    IF S = {} THEN << >>
    ELSE LET m == CHOOSE x \in S : \A y \in S : x <= y
         IN  << m >> \o SortedNames(S \ {m})

\* bin_files = sorted([... os.listdir(raw_dir) ...])
SortedBinFiles(listing) == SortedNames(Range(listing))

\* the mutant: only the orientation with the focus unit on the X side is read
RecordMatchXOnly(map, fname_x, fname_y, unit_x, unit_y, focus) ==
    IF fname_x = focus.bin_filename /\ unit_x = focus.unit_id
    THEN [map EXCEPT ![fname_y] = unit_y]
    ELSE map

\* the body of "for match in matches": if / elif on the two orientations
RecordMatch(map, fname_x, fname_y, unit_x, unit_y, focus) ==
    IF fname_x = focus.bin_filename /\ unit_x = focus.unit_id
    THEN [map EXCEPT ![fname_y] = unit_y]
    ELSE IF fname_y = focus.bin_filename /\ unit_y = focus.unit_id
         THEN [map EXCEPT ![fname_x] = unit_x]
         ELSE map

\* num_frames = file_size // (2 * n_channels)
NumFrames(file_size, n_channels) == file_size \div (2 * n_channels)

\* duration_sec = num_frames / sampling_frequency, in ticks
DurationSec(num_frames, sampling_frequency) ==
    num_frames * (TicksPerSecond \div sampling_frequency)

\* the mutant: the segment ends where it starts
SegmentEndNoDuration(offset, duration_sec) == offset

\* segment_end = current_offset + duration_sec
SegmentEnd(offset, duration_sec) == offset + duration_sec

\* the mutant: the running offset is not advanced
AdvanceOffsetStale(offset, segment_end) == offset

\* current_offset = segment_end
AdvanceOffset(offset, segment_end) == segment_end

\* the mutant: only the labels file is tested before both are loaded
SortingAvailableLabelsOnly(has_times, has_labels) == has_labels

\* os.path.exists(spike_times_path) and os.path.exists(spike_labels_path)
SortingAvailable(has_times, has_labels) == has_times /\ has_labels

\* spike_times[spike_labels == unit_id]
RECURSIVE MaskSelect(_, _, _)
MaskSelect(spike_times, spike_labels, unit_id) ==
    IF spike_labels = << >> THEN << >>
    ELSE LET rest == MaskSelect(Tail(spike_times), Tail(spike_labels), unit_id)
         IN  IF Head(spike_labels) = unit_id
             THEN << Head(spike_times) >> \o rest
             ELSE rest

\* unit_spike_times + current_offset
OffsetSpikeTimes(unit_spike_times, offset) ==
    [i \in 1..Len(unit_spike_times) |-> unit_spike_times[i] + offset]

\* the spike_times.npy written with a spike_labels.npy of n events: the
\* events of a recording in time order, one per tick
SpikeTimesArray(n) == [i \in 1..n |-> i - 1]

\* the mutant: the spikes of a segment are not added to the total
AddSpikesDropped(total, num_spikes) == total

\* total_spikes += num_spikes
AddSpikes(total, num_spikes) == total + num_spikes

UnitSegment(bin_filename, unit_id, segment_start, segment_end, unit_spike_times, offset, is_focus_file) ==
    [ bin_filename      |-> bin_filename,
      unit_id           |-> unit_id,
      start_time_offset |-> segment_start,
      end_time_offset   |-> segment_end,
      num_spikes        |-> Len(unit_spike_times),
      spike_times       |-> OffsetSpikeTimes(unit_spike_times, offset),
      is_focus_unit     |-> is_focus_file,
      is_gap            |-> FALSE ]

GapSegment(bin_filename, segment_start, segment_end) ==
    [ bin_filename      |-> bin_filename,
      unit_id           |-> Null,
      start_time_offset |-> segment_start,
      end_time_offset   |-> segment_end,
      num_spikes        |-> 0,
      spike_times       |-> << >>,
      is_focus_unit     |-> FALSE,
      is_gap            |-> TRUE ]

ErrorResponse(status) == [status |-> status]

----------------------------------------------------------------------------
(* get_spike_train_for_focus_unit_handler: the request, step by step *)

InitAsm ==
    /\ MatchIdle
    /\ StoreIdle
    /\ pc = "find"
    /\ focus_unit = NoUnit
    /\ config = [n_channels |-> 0, sampling_frequency |-> 0]
    /\ bin_files = << >>
    /\ nscanned = 0
    /\ mutual_matches_map = [f \in Files |-> Null]
    /\ dir_seen = [f \in Files |-> {}]
    /\ linked = [f \in Files |-> {}]
    /\ idx = 1
    /\ segments = << >>
    /\ current_offset = 0
    /\ total_spikes = 0
    /\ walked = << >>
    /\ response = NoResponse

\* the focus unit is looked up in the store; 404 when it is not there
FindFocusUnit ==
    /\ UNCHANGED << matchVars, storeVars >>
    /\ pc = "find"
    /\ \E fu \in FocusUnits \cup {NoUnit} :
         /\ focus_unit' = fu
         /\ IF fu = NoUnit
            THEN /\ response' = ErrorResponse(404)
                 /\ pc' = "done"
            ELSE /\ response' = response
                 /\ pc' = "config"
    /\ UNCHANGED << config, bin_files, nscanned, mutual_matches_map, dir_seen, linked,
                    idx, segments, current_offset, total_spikes, walked >>

\* realtime512.yaml is read; 404 when it does not exist
LoadConfig ==
    /\ UNCHANGED << matchVars, storeVars >>
    /\ pc = "config"
    /\ \E config_exists \in BOOLEAN, c \in ConfigChoices :
         IF config_exists
         THEN /\ config' = c
              /\ pc' = "list"
              /\ response' = response
         ELSE /\ config' = config
              /\ pc' = "done"
              /\ response' = ErrorResponse(404)
    /\ UNCHANGED << focus_unit, bin_files, nscanned, mutual_matches_map,
                    dir_seen, linked, idx, segments, current_offset, total_spikes,
                    walked >>

\* raw/ is listed and the .bin names sorted; 404 when raw/ does not exist
ListRawFiles ==
    /\ UNCHANGED << matchVars, storeVars >>
    /\ pc = "list"
    /\ \E raw_exists \in BOOLEAN :
         IF raw_exists
         THEN /\ \E listing \in Listings(Files) :
                   bin_files' = SortedBinFiles(listing)
              /\ pc' = "scan"
              /\ response' = response
         ELSE /\ bin_files' = bin_files
              /\ pc' = "done"
              /\ response' = ErrorResponse(404)
    /\ UNCHANGED << focus_unit, config, nscanned, mutual_matches_map, dir_seen, linked,
                    idx, segments, current_offset, total_spikes, walked >>

\* one record of one computed/unit_matching/<X>/<Y>/mutual_matches.json. The
\* directories come in listdir order, so any record may come next; one file
\* names a unit at most once on each side, as compute_unit_matches writes it.
ScanMatch ==
    /\ UNCHANGED << matchVars, storeVars >>
    /\ pc = "scan"
    /\ nscanned < MaxRecords
    /\ \E fname_x \in Files, fname_y \in Files, unit_x \in UnitIds,
          unit_y \in UnitIds :
         LET focus_is_x == /\ fname_x = focus_unit.bin_filename
                           /\ unit_x = focus_unit.unit_id
             focus_is_y == /\ fname_y = focus_unit.bin_filename
                           /\ unit_y = focus_unit.unit_id
         IN
         /\ fname_x # fname_y
         /\ focus_is_x =>
               \A e \in dir_seen[fname_y] : e.side = "X" => e.unit = unit_y
         /\ focus_is_y =>
               \A e \in dir_seen[fname_x] : e.side = "Y" => e.unit = unit_x
         /\ mutual_matches_map' =
               RecordMatch(mutual_matches_map, fname_x, fname_y, unit_x,
                           unit_y, focus_unit)
         /\ dir_seen' =
               [f \in Files |->
                  dir_seen[f]
                  \cup (IF focus_is_x /\ f = fname_y
                        THEN {[unit |-> unit_y, side |-> "X"]} ELSE {})
                  \cup (IF focus_is_y /\ f = fname_x
                        THEN {[unit |-> unit_x, side |-> "Y"]} ELSE {})]
         /\ linked' =
               [f \in Files |->
                  linked[f]
                  \cup (IF focus_is_x /\ f = fname_y THEN {unit_y} ELSE {})
                  \cup (IF focus_is_y /\ f = fname_x THEN {unit_x} ELSE {})]
    /\ nscanned' = nscanned + 1
    /\ UNCHANGED << pc, focus_unit, config, bin_files, idx, segments,
                    current_offset, total_spikes, walked, response >>

\* the directory scan is over (at once when unit_matching/ does not exist)
EndScan ==
    /\ UNCHANGED << matchVars, storeVars >>
    /\ pc = "scan"
    /\ pc' = "walk"
    /\ nscanned' = 0
    /\ dir_seen' = [f \in Files |-> {}]
    /\ UNCHANGED << focus_unit, config, bin_files, mutual_matches_map, linked,
                    idx, segments, current_offset, total_spikes, walked,
                    response >>

\* one iteration of "for bin_filename in bin_files"; what the iteration
\* finds on disk is drawn when the code reads it
WalkFile ==
    /\ UNCHANGED << matchVars, storeVars >>
    /\ pc = "walk"
    /\ idx <= Len(bin_files)
    /\ LET bin_filename == bin_files[idx]
           is_focus_file == (bin_filename = focus_unit.bin_filename)
           has_match == (mutual_matches_map[bin_filename] # Null)
           unit_id == IF is_focus_file THEN focus_unit.unit_id
                      ELSE mutual_matches_map[bin_filename]
           segment_start == current_offset
           Emit(segment, num_spikes, duration_sec, sorting) ==
               /\ segments' = Append(segments, segment)
               /\ total_spikes' = AddSpikes(total_spikes, num_spikes)
               /\ current_offset' =
                     AdvanceOffset(current_offset, segment.end_time_offset)
               /\ walked' = Append(walked,
                                   [ bin_filename |-> bin_filename,
                                     duration     |-> duration_sec,
                                     sorting      |-> sorting ])
               /\ idx' = idx + 1
               /\ UNCHANGED << pc, response >>
       IN
       \/ \* the name was listed but the path does not exist: skipped
          /\ idx' = idx + 1
          /\ UNCHANGED << pc, segments, current_offset, total_spikes, walked,
                          response >>
       \/ \E file_size \in FileSizes :
            LET duration_sec ==
                    DurationSec(NumFrames(file_size, config.n_channels),
                                config.sampling_frequency)
                segment_end == SegmentEnd(current_offset, duration_sec)
                gap == GapSegment(bin_filename, segment_start, segment_end)
            IN
            IF ~(is_focus_file \/ has_match)
            THEN Emit(gap, 0, duration_sec, "unread")
            ELSE \E has_times \in BOOLEAN, has_labels \in BOOLEAN :
                   IF ~SortingAvailable(has_times, has_labels)
                   THEN Emit(gap, 0, duration_sec, "missing")
                   ELSE IF ~(has_times /\ has_labels)
                   THEN \* np.load of a file that is not there: the
                        \* request fails
                        /\ pc' = "done"
                        /\ response' = ErrorResponse(500)
                        /\ UNCHANGED << idx, segments, current_offset,
                                        total_spikes, walked >>
                   ELSE \E spike_labels \in SpikeLabelArrays :
                          LET unit_spike_times ==
                                  MaskSelect(SpikeTimesArray(Len(spike_labels)),
                                             spike_labels, unit_id)
                          IN  Emit(UnitSegment(bin_filename, unit_id,
                                               segment_start, segment_end,
                                               unit_spike_times,
                                               current_offset, is_focus_file),
                                   Len(unit_spike_times), duration_sec, "ok")
    /\ UNCHANGED << focus_unit, config, bin_files, nscanned,
                    mutual_matches_map, dir_seen, linked >>

\* the loop is over: total_duration_sec = current_offset, and the reply
Respond ==
    /\ UNCHANGED << matchVars, storeVars >>
    /\ pc = "walk"
    /\ idx > Len(bin_files)
    /\ response' = [ status             |-> 200,
                     total_spikes       |-> total_spikes,
                     total_duration_sec |-> current_offset,
                     segments           |-> segments ]
    /\ pc' = "done"
    /\ UNCHANGED << focus_unit, config, bin_files, nscanned,
                    mutual_matches_map, dir_seen, linked, idx, segments, current_offset,
                    total_spikes, walked >>

NextAsm ==
    \/ FindFocusUnit
    \/ LoadConfig
    \/ ListRawFiles
    \/ ScanMatch
    \/ EndScan
    \/ WalkFile
    \/ Respond

SpecAsm == InitAsm /\ [][NextAsm]_vars

----------------------------------------------------------------------------
(* compute_unit_matches: one call, then the call with X and Y swapped *)

AsmIdle ==
    /\ pc = "idle"
    /\ focus_unit = NoUnit
    /\ config = [n_channels |-> 0, sampling_frequency |-> 0]
    /\ bin_files = << >>
    /\ nscanned = 0
    /\ mutual_matches_map = [f \in Files |-> Null]
    /\ dir_seen = [f \in Files |-> {}]
    /\ linked = [f \in Files |-> {}]
    /\ idx = 1
    /\ segments = << >>
    /\ current_offset = 0
    /\ total_spikes = 0
    /\ walked = << >>
    /\ response = NoResponse

InitMatch ==
    /\ AsmIdle
    /\ StoreIdle
    /\ \E x \in Recordings, y \in Recordings :
         \* distances do not change when both recordings are reflected
         \* (c -> 1 - c), so the first event of X is put at 0
         /\ x.frames # << >> => x.frames[1] = 0
         /\ frames_x = x.frames
         /\ labels_x = x.labels
         /\ frames_y = y.frames
         /\ labels_y = y.labels
    /\ n_neighbors \in 1..MaxNeighbors
    /\ tie_break \in TieBreaks
    /\ result_xy = NotCalled
    /\ result_yx = NotCalled

\* compute_unit_matches(frames_x, labels_x, frames_y, labels_y, n_neighbors)
CallXY ==
    /\ result_xy = NotCalled
    /\ result_xy' = compute_unit_matches(frames_x, labels_x, frames_y,
                                          labels_y, n_neighbors, tie_break)
    /\ UNCHANGED << frames_x, labels_x, frames_y, labels_y, n_neighbors,
                    tie_break, result_yx >>
    /\ UNCHANGED << asmVars, storeVars >>

\* the same call with the two recordings swapped
CallYX ==
    /\ result_xy # NotCalled
    /\ result_yx = NotCalled
    /\ result_yx' = compute_unit_matches(frames_y, labels_y, frames_x,
                                          labels_x, n_neighbors, tie_break)
    /\ UNCHANGED << frames_x, labels_x, frames_y, labels_y, n_neighbors,
                    tie_break, result_xy >>
    /\ UNCHANGED << asmVars, storeVars >>

NextMatch ==
    \/ CallXY
    \/ CallYX

SpecMatch == InitMatch /\ [][NextMatch]_vars

----------------------------------------------------------------------------
(* The write handlers of the focus-unit store, step by step *)

WriteRequests == AddRequests \cup UpdateRequests \cup DeleteRequests

InitStore ==
    /\ AsmIdle
    /\ MatchIdle
    /\ StoreIdle

\* a request arrives without what its handler needs before it loads: 400
RejectRequest(w) ==
    /\ w_pc[w] # "loaded"
    /\ \E req \in WriteRequests : RejectedEarly(req)
    /\ w_pc' = [w_pc EXCEPT ![w] = "returned"]
    /\ w_added' = [w_added EXCEPT ![w] = << >>]
    /\ w_response' = [w_response EXCEPT ![w] = 400]
    /\ w_stale' = [w_stale EXCEPT ![w] = FALSE]
    /\ UNCHANGED << store_file, w_data >>
    /\ UNCHANGED << asmVars, matchVars >>

\* data = _load_focus_units(); the three handlers do not look at the rest
\* of their request before
LoadStore(w) ==
    /\ w_pc[w] # "loaded"
    /\ w_pc' = [w_pc EXCEPT ![w] = "loaded"]
    /\ w_data' = [w_data EXCEPT ![w] = store_file]
    /\ w_added' = [w_added EXCEPT ![w] = << >>]
    /\ w_response' = [w_response EXCEPT ![w] = NoReply]
    /\ w_stale' = [w_stale EXCEPT ![w] = FALSE]
    /\ UNCHANGED store_file
    /\ UNCHANGED << asmVars, matchVars >>

\* the rest of the handler: it changes the list it loaded and either
\* returns an error or saves the list and returns
FinishRequest(w) ==
    /\ w_pc[w] = "loaded"
    /\ \E req \in WriteRequests :
         /\ ~RejectedEarly(req)
         /\ req.kind = "add" =>
               /\ Len(w_data[w]) + Len(req.units) <= MaxStored
               /\ NextNum(w_data[w]) + Len(req.units) - 1 <= MaxIdNum
         /\ \E sorting \in SortingChoices(req) :
              LET out == HandlerOutcome(req,
                             LoadedData(w_data[w], store_file), sorting)
              IN  /\ w_response' = [w_response EXCEPT ![w] = out.response]
                  /\ w_added' = [w_added EXCEPT ![w] = out.added_units]
                  /\ IF out.save
                     THEN /\ store_file' = out.focus_units
                          /\ w_stale' =
                                [v \in Writers |->
                                   (v # w /\ w_pc[v] = "loaded") \/ w_stale[v]]
                     ELSE UNCHANGED << store_file, w_stale >>
    /\ w_pc' = [w_pc EXCEPT ![w] = "returned"]
    /\ w_data' = [w_data EXCEPT ![w] = << >>]
    /\ UNCHANGED << asmVars, matchVars >>

WriterStep(w) ==
    \/ RejectRequest(w)
    \/ LoadStore(w)
    \/ FinishRequest(w)

\* requests served by several threads at once
NextStore == \E w \in Writers : WriterStep(w)

SpecStore == InitStore /\ [][NextStore]_vars

\* requests served one after the other
NextStoreSeq ==
    \E w \in Writers :
       /\ \A v \in Writers : v # w => w_pc[v] # "loaded"
       /\ WriterStep(w)

SpecStoreSeq == InitStore /\ [][NextStoreSeq]_vars

----------------------------------------------------------------------------
(* The assembler's claims *)

Replied == response.status = 200

LinkedUnits(f) == linked[f]

AllSorted == \A i \in 1..Len(walked) : walked[i].sorting # "missing"

Contiguous(s) ==
    /\ Len(s) > 0 => s[1].start_time_offset = 0
    /\ \A i \in 1..(Len(s) - 1) :
          s[i].end_time_offset = s[i + 1].start_time_offset

\* C1: the segment list of every reply is contiguous: the first segment
\* starts at offset 0 and each segment ends where the next one starts.
C1_Contiguous == Replied => Contiguous(response.segments)

C1_Witness ==
    /\ Replied
    /\ Len(response.segments) = NumFiles
    /\ \E i \in 1..Len(response.segments) : response.segments[i].is_gap
    /\ \E i \in 1..Len(response.segments) : ~response.segments[i].is_gap
    /\ response.segments[1].end_time_offset > 0

\* C2: a reply holds exactly one segment per recording file found on disk,
\* in filename order, each as long as its file whatever its branch, and
\* total_duration_sec is the sum of the files' durations.
C2_OneSegmentPerFile ==
    Replied =>
      LET s == response.segments IN
      /\ Len(s) = Len(walked)
      /\ \A i \in 1..Len(s) :
            /\ s[i].bin_filename = walked[i].bin_filename
            /\ s[i].end_time_offset - s[i].start_time_offset
                  = walked[i].duration
      /\ \A i, j \in 1..Len(s) :
            i < j => s[i].bin_filename < s[j].bin_filename
      /\ response.total_duration_sec
            = SumSeq([i \in 1..Len(walked) |-> walked[i].duration])

C2_Witness ==
    /\ Replied
    /\ Len(walked) = NumFiles
    /\ \E i, j \in 1..Len(walked) :
          /\ walked[i].sorting = "ok"
          /\ walked[j].sorting = "unread"
          /\ walked[i].duration # walked[j].duration
    /\ response.total_duration_sec > 0

\* C3: total_spikes is the sum of num_spikes over the non-gap segments, and
\* a gap segment has num_spikes 0 and no spike times.
C3_SpikeTotal ==
    Replied =>
      LET s == response.segments IN
      /\ response.total_spikes
            = SumSeq([i \in 1..Len(s) |->
                        IF s[i].is_gap THEN 0 ELSE s[i].num_spikes])
      /\ \A i \in 1..Len(s) :
            s[i].is_gap => s[i].num_spikes = 0 /\ s[i].spike_times = << >>

C3_Witness ==
    /\ Replied
    /\ response.total_spikes >= 1
    /\ \E i \in 1..Len(response.segments) : response.segments[i].is_gap

AnchorSegmentOk(seg) ==
    /\ ~seg.is_gap
    /\ seg.unit_id = focus_unit.unit_id
    /\ seg.is_focus_unit

\* C4 as stated: with every sorting output present the anchor file yields the
\* anchor's non-gap segment, another file yields a non-gap segment with unit
\* id u exactly when some record pairs the anchor unit with unit u of that
\* file (on either side), and every remaining file yields a gap.
C4_AsStated ==
    (Replied /\ AllSorted) =>
      \A i \in 1..Len(response.segments) :
        LET seg == response.segments[i]
            f == seg.bin_filename
        IN  IF f = focus_unit.bin_filename
            THEN AnchorSegmentOk(seg)
            ELSE /\ \A u \in UnitIds :
                      (~seg.is_gap /\ seg.unit_id = u /\ ~seg.is_focus_unit)
                        <=> u \in LinkedUnits(f)
                 /\ LinkedUnits(f) = {} =>
                      seg.is_gap /\ seg.unit_id = Null

\* C4 amended: with every sorting output present the anchor file yields the
\* anchor's non-gap segment; another file yields a non-gap segment exactly
\* when some record pairs the anchor unit with a unit of that file (on
\* either side), its unit id is the unit of one of those records, hence u
\* when they all name u; every remaining file yields a gap with unit id null.
C4_Resolution ==
    (Replied /\ AllSorted) =>
      \A i \in 1..Len(response.segments) :
        LET seg == response.segments[i]
            f == seg.bin_filename
        IN  IF f = focus_unit.bin_filename
            THEN AnchorSegmentOk(seg)
            ELSE /\ ~seg.is_gap <=> LinkedUnits(f) # {}
                 /\ ~seg.is_gap =>
                      seg.unit_id \in LinkedUnits(f) /\ ~seg.is_focus_unit
                 /\ seg.is_gap => seg.unit_id = Null /\ ~seg.is_focus_unit

C4_Witness ==
    /\ Replied
    /\ AllSorted
    /\ \E i, j \in 1..Len(response.segments) :
          /\ response.segments[i].is_focus_unit
          /\ ~response.segments[j].is_gap
          /\ ~response.segments[j].is_focus_unit
          /\ response.segments[j].bin_filename < response.segments[i].bin_filename
          /\ linked[response.segments[j].bin_filename]
                = {response.segments[j].unit_id}

\* C5: a file that is the anchor's or has a matched unit, and whose spike
\* times or labels are missing, becomes a gap segment as long as the file,
\* and the request still replies with a segment for every file.
C5_MissingSortingIsGap ==
    /\ response.status # 500
    /\ Replied =>
         /\ Len(response.segments) = Len(walked)
         /\ \A i \in 1..Len(walked) :
               walked[i].sorting = "missing" =>
                 LET seg == response.segments[i] IN
                 /\ seg.bin_filename = walked[i].bin_filename
                 /\ seg.is_gap
                 /\ seg.unit_id = Null
                 /\ seg.num_spikes = 0
                 /\ seg.spike_times = << >>
                 /\ seg.end_time_offset - seg.start_time_offset
                       = walked[i].duration

C5_Witness ==
    /\ Replied
    /\ Len(walked) = NumFiles
    /\ \E i \in 1..(Len(walked) - 1) :
          /\ walked[i].sorting = "missing"
          /\ walked[i + 1].sorting = "ok"
          /\ response.segments[i + 1].num_spikes > 0

----------------------------------------------------------------------------
(* The matcher's claims *)

Returned(r) == r # NotCalled /\ r.status = "ok"

ReportedPairs(r) ==
    { << r.mutual_matches[i].unit_x, r.mutual_matches[i].unit_y >> :
        i \in 1..Len(r.mutual_matches) }

IsCopy == frames_y = frames_x /\ labels_y = labels_x

HasEvents(labels, k) == \E i \in 1..Len(labels) : labels[i] = k

AllZero(labels) == \A i \in 1..Len(labels) : labels[i] = 0

InUnitInterval(score) ==
    /\ score.den > 0
    /\ 0 <= score.num
    /\ score.num <= score.den

\* the mutual match (k, k) is reported with overall_score 1.0
SelfMatched(r, k) ==
    \E i \in 1..Len(r.mutual_matches) :
       /\ r.mutual_matches[i].unit_x = k
       /\ r.mutual_matches[i].unit_y = k
       /\ FracEq(r.mutual_matches[i].overall_score, One)

\* C6: a pair (kx, ky) is in mutual_matches exactly when the best match of
\* X-unit kx is ky, the best match of Y-unit ky is kx and ky > 0; every
\* reported unit is > 0 and overall_score is the mean of the two
\* directional scores.
C6_MutualIff ==
    Returned(result_xy) =>
      LET r == result_xy
          bm_x == r.best_matches_x_to_y
          bm_y == r.best_matches_y_to_x
      IN  /\ ReportedPairs(r) \subseteq (DOMAIN bm_x) \X (DOMAIN bm_y)
          /\ \A kx \in DOMAIN bm_x, ky \in DOMAIN bm_y :
                << kx, ky >> \in ReportedPairs(r)
                  <=> (bm_x[kx] = ky /\ bm_y[ky] = kx /\ ky > 0)
          /\ Cardinality(ReportedPairs(r)) = Len(r.mutual_matches)
          /\ \A i \in 1..Len(r.mutual_matches) :
                LET m == r.mutual_matches[i]
                    a == m.score_x_to_y
                    b == m.score_y_to_x
                IN  /\ m.unit_x > 0
                    /\ m.unit_y > 0
                    /\ 2 * m.overall_score.num * a.den * b.den
                          = m.overall_score.den
                              * (a.num * b.den + b.num * a.den)

C6_Witness ==
    /\ Returned(result_xy)
    /\ Len(result_xy.mutual_matches) >= 1
    /\ \E kx \in DOMAIN result_xy.best_matches_x_to_y :
          LET ky == result_xy.best_matches_x_to_y[kx]
          IN  /\ kx > 0
              /\ ky > 0
              /\ result_xy.best_matches_y_to_x[ky] # kx
              /\ << kx, ky >> \notin ReportedPairs(result_xy)

\* C7 as stated: with Y an exact copy of X, every unit k > 0 that has events
\* in X is reported as the mutual match (k, k) with overall_score 1.0.
C7_AsStated ==
    (Returned(result_xy) /\ IsCopy) =>
      \A k \in 1..MaxLabelOf(labels_x) :
         HasEvents(labels_x, k) => SelfMatched(result_xy, k)

\* C7 amended: with Y an exact copy of X, every unit k > 0 with events whose
\* events all get k as the majority label of their neighbours is reported
\* as (k, k) with overall_score 1.0; with n_neighbors = 1 and pairwise
\* distinct feature vectors that is every unit k > 0 with events.
C7_Resolution ==
    (Returned(result_xy) /\ IsCopy) =>
      /\ \A k \in 1..MaxLabelOf(labels_x) :
            ( /\ HasEvents(labels_x, k)
              /\ \A i \in 1..Len(labels_x) :
                    labels_x[i] = k
                      => result_xy.event_matches_x_to_y[i] = k )
              => SelfMatched(result_xy, k)
      /\ ( /\ n_neighbors = 1
            /\ \A i, j \in 1..Len(frames_x) :
                  i # j => frames_x[i] # frames_x[j] )
            => \A k \in 1..MaxLabelOf(labels_x) :
                  HasEvents(labels_x, k) => SelfMatched(result_xy, k)

C7_Witness ==
    /\ Returned(result_xy)
    /\ IsCopy
    /\ n_neighbors = 1
    /\ HasEvents(labels_x, 1)
    /\ HasEvents(labels_x, 2)
    /\ SelfMatched(result_xy, 1)
    /\ SelfMatched(result_xy, 2)

\* C8: every mutual match (kx, ky) with scores (a, b) of the call on (X, Y)
\* is reported by the call on (Y, X) as (ky, kx) with scores (b, a), and the
\* two calls report the same number of mutual matches.
C8_SwapSymmetric ==
    (Returned(result_xy) /\ result_yx # NotCalled) =>
      /\ Returned(result_yx)
      /\ Len(result_yx.mutual_matches) = Len(result_xy.mutual_matches)
      /\ \A i \in 1..Len(result_xy.mutual_matches) :
            \E j \in 1..Len(result_yx.mutual_matches) :
               LET m == result_xy.mutual_matches[i]
                   w == result_yx.mutual_matches[j]
               IN  /\ w.unit_x = m.unit_y
                   /\ w.unit_y = m.unit_x
                   /\ FracEq(w.score_x_to_y, m.score_y_to_x)
                   /\ FracEq(w.score_y_to_x, m.score_x_to_y)

C8_Witness ==
    /\ Returned(result_xy)
    /\ Returned(result_yx)
    /\ \E i \in 1..Len(result_xy.mutual_matches) :
          LET m == result_xy.mutual_matches[i]
          IN  /\ m.unit_x # m.unit_y
              /\ ~FracEq(m.score_x_to_y, m.score_y_to_x)

\* C9: every reported score_x_to_y, score_y_to_x and overall_score lies in
\* [0, 1], and a label without events in its own recording (a hole in
\* 1..max_label, or the noise label 0) is never unit_x or unit_y of a
\* reported mutual match.
C9_ScoresAndEndpoints ==
    Returned(result_xy) =>
      \A i \in 1..Len(result_xy.mutual_matches) :
         LET m == result_xy.mutual_matches[i]
         IN  /\ InUnitInterval(m.score_x_to_y)
             /\ InUnitInterval(m.score_y_to_x)
             /\ InUnitInterval(m.overall_score)
             /\ m.unit_x # 0
             /\ m.unit_y # 0
             /\ HasEvents(labels_x, m.unit_x)
             /\ HasEvents(labels_y, m.unit_y)

C9_Witness ==
    /\ Returned(result_xy)
    /\ HasEvents(labels_x, 2)
    /\ ~HasEvents(labels_x, 1)
    /\ HasEvents(labels_y, 0)
    /\ \E i \in 1..Len(result_xy.mutual_matches) :
          LET m == result_xy.mutual_matches[i]
          IN  /\ m.unit_x = 2
              /\ ~FracEq(m.score_x_to_y, One)
              /\ ~FracEq(m.overall_score, One)

\* C10 as stated: compute_unit_matches never raises on an input-shape error:
\* n_neighbors above the number of reference events is clamped, and empty or
\* all-zero label arrays give an empty mutual_matches list.
C10_NeverFails ==
    result_xy # NotCalled =>
      /\ result_xy.status = "ok"
      /\ (AllZero(labels_x) \/ AllZero(labels_y))
            => result_xy.mutual_matches = << >>

----------------------------------------------------------------------------
(* The store's claims *)

Succeeded(status) == status \in {200, 201}

Failed(status) == status \in {400, 404, 500}

\* the handler of writer w returns in this step, having loaded the store
Returns(w) == w_pc[w] = "loaded" /\ w_pc'[w] = "returned"

IdNumber(unit) == ParseInt(unit.focus_unit_id.digits)

LargestNumber(focus_units) ==
    MaxOf({ 0 } \cup { IdNumber(focus_units[i]) : i \in 1..Len(focus_units) })

UniqueIds(focus_units) ==
    \A i, j \in 1..Len(focus_units) :
       i # j => focus_units[i].focus_unit_id # focus_units[j].focus_unit_id

\* the list a successful update or delete may make of the list it loaded
ChangedLists(loaded) ==
    { FilterOut(loaded, id) : id \in FocusUnitIds }
      \cup { SetNotes(loaded, id, notes) :
               id \in { i \in FocusUnitIds : HasUnit(loaded, i) },
               notes \in NoteTexts }

\* C11: a write handler loads, changes and saves in separate steps: what it
\* saves is the list it loaded with its own change only, whatever another
\* request saved in between, so two overlapping requests can both succeed
\* while the file lacks the change of one of them.
C11_SaveFromOwnLoad ==
    [][ \A w \in Writers :
          (Returns(w) /\ Succeeded(w_response'[w])) =>
             IF w_response'[w] = 201
             THEN store_file' = w_data[w] \o w_added'[w]
             ELSE store_file' \in ChangedLists(w_data[w]) ]_vars

C11_Witness ==
    \E p, q \in Writers :
       /\ p # q
       /\ w_stale[p]
       /\ w_pc[p] = "returned"
       /\ w_pc[q] = "returned"
       /\ w_response[p] = 201
       /\ w_response[q] = 201
       /\ Len(w_added[p]) = 1
       /\ Len(w_added[q]) = 1
       /\ w_added[p][1].focus_unit_id = w_added[q][1].focus_unit_id
       /\ Len(store_file) = 1

\* C12: with the requests served one after the other from an empty store, no
\* two stored focus units share a focus_unit_id, units added by one request
\* included, and each new id is F followed by the largest number among the
\* ids stored before it plus one.
C12_UniqueIds ==
    [][ /\ UniqueIds(store_file')
        /\ \A w \in Writers :
              (Returns(w) /\ w_response'[w] = 201) =>
                 /\ store_file' = store_file \o w_added'[w]
                 /\ \A i \in 1..Len(w_added'[w]) :
                       LET new_unit == w_added'[w][i]
                           before == SubSeq(store_file', 1,
                                            Len(store_file) + i - 1)
                       IN  /\ new_unit.focus_unit_id.prefix = "F"
                           /\ IdNumber(new_unit) = LargestNumber(before) + 1 ]_vars

C12_Witness ==
    \E w \in Writers :
       /\ w_pc[w] = "returned"
       /\ w_response[w] = 201
       /\ Len(store_file) = 2
       /\ w_added[w] = << store_file[2] >>
       /\ IdNumber(store_file[1]) = 2
       /\ IdNumber(store_file[2]) = 3

\* C13: a write request that returns an error leaves the file as it was: a
\* failed add stores none of its units, also not the units validated before
\* the failing one, and an update or delete of an unknown id does not save.
C13_ErrorLeavesStore ==
    [][ /\ \A w \in Writers :
              (w_pc'[w] = "returned" /\ Failed(w_response'[w])
                 /\ (w_pc[w] # "returned" \/ w_response[w] # w_response'[w]))
                => store_file' = store_file
        /\ store_file' # store_file =>
              \E w \in Writers : Returns(w) /\ Succeeded(w_response'[w]) ]_vars

C13_Witness ==
    \E w \in Writers :
       /\ w_pc[w] = "returned"
       /\ w_response[w] = 400
       /\ Len(w_added[w]) >= 1
       /\ store_file # << >>
       /\ ~HasUnit(store_file, w_added[w][1].focus_unit_id)

====
